---- MODULE Spec2Model ----
(***************************************************************************)
(* notifwd: the poller of src/notifwd.py.  The notification store is the   *)
(* sqlite table `record`; the program keeps a cursor (Notification.last_id,*)
(* Notification.last_date) and, on every scheduled poll                    *)
(* (Notification.check), walks the table backwards with window queries     *)
(* (Notification.get_notification_data) and sends what it takes for new.   *)
(* The store is written by the operating system and by the user (dismissed *)
(* notifications are deleted) while the program runs.                      *)
(***************************************************************************)
EXTENDS Integers, Sequences, FiniteSets

\* ------------------------------------------------------------------ bounds
\* Records ever inserted into the store (rec_id 1..MaxRecords).
MaxRecords == 3
\* Calls of the provider over the whole run (the length of the log `sent`).
MaxSent == 3

\* ---------------------------------------------------------------- values
\* Python None: a NULL column, and the result of fetchone() on no row.
None == 0
\* A class attribute that was never assigned (reading it raises AttributeError).
Unset == 0 - 1
\* Core Data timestamps, abstracted to two instants.
Times == {1, 2}
\* response.status_code: the provider accepted the message, or did not.
StatusCodes == {200, 500}
\* The date columns of a row: request_date, delivered_date.  "Either
\* delivered_date or request_date will be filled in" (check, line 191).
RecordDates ==
    {d \in [request_date : Times \cup {None}, delivered_date : Times \cup {None}] :
        (d.request_date = None) # (d.delivered_date = None)}

\* The command line as parse_args returns it: --provider, --api-key,
\* --user-key ("None" when absent) and --frequency.
Args ==
    [provider : {"None", "prowl", "PushOver", "bogus"},
     api_key : {"None", "k"},
     user_key : {"None", "u"},
     frequency : {0 - 1, 0, 1}]

\* args once setup has returned.
NoArgs == [provider |-> "None", api_key |-> "None", user_key |-> "None", frequency |-> 0]

\* str.lower() on the provider names of Args.
Lower(p) == IF p = "PushOver" THEN "pushover" ELSE p

\* PROVIDERS: the provider names and the class each selects.
PROVIDERS == [prowl |-> "Prowl", pushover |-> "PushOver", default |-> "Prowl"]

\* validate_args, lines 55-61: the provider name it settles on.
ProviderName(a) ==
    LET p == IF a.provider = "None" THEN "default" ELSE Lower(a.provider)
    IN  IF p \in DOMAIN PROVIDERS THEN p ELSE "default"

\* A variant of validate_args in which PushOver does not ask for a user key.
validate_args_lax(a) ==
    IF a.frequency <= 0 THEN "frequency must be a positive integer."
    ELSE IF a.api_key = "None" THEN "no API key specified."
    ELSE "ok"

\* Notification.validate_args with Prowl.validate_args and
\* PushOver.validate_args: the message of the exception raised, or "ok".
validate_args(a) ==
    IF a.frequency <= 0 THEN "frequency must be a positive integer."
    ELSE IF a.api_key = "None" THEN "no API key specified."
    ELSE IF PROVIDERS[ProviderName(a)] = "PushOver" /\ a.user_key = "None"
         THEN "no USER key specified."
    ELSE "ok"

VARIABLES
    rows,          \* rows[i]: the date columns of the record inserted with rec_id i
    live,          \* rec_ids now in the table `record`
    pc,            \* where the process is
    args,          \* setup: args, the parsed command line
    connection,    \* Notification.connection: "none", "open", "closed"
    queue,         \* events pending in the sched.scheduler queue
    last_id,       \* Notification.last_id
    last_date,     \* Notification.last_date
    n,             \* check: n
    sql_data,      \* check: sql_data
    newest_id,     \* check: newest_id
    newest_date,   \* check: newest_date
    status,        \* send: response.status_code of the last send of this check
    sent,          \* rec_ids handed to PROVIDER.send_notification, in order
    err,           \* the exception that ended the process, "none" if none
    pollFrom,      \* history: Len(sent) when the current poll began
    baseline,      \* history: rec_ids in the store when setup captured the cursor
    quiet,         \* history: the store has not changed since the current poll began
    calm           \* history: polls begun since the last insertion, counted to 2

vars == <<rows, live, pc, args, connection, queue, last_id, last_date, n, sql_data,
          newest_id, newest_date, status, sent, err, pollFrom, baseline, quiet, calm>>

store == <<rows, live>>
cursor == <<last_id, last_date>>
locals == <<n, sql_data, newest_id, newest_date, status>>

\* ---------------------------------------------------------------- helpers
\* A row as the query returns it: sql_data[0], sql_data[4], sql_data[6].
Row(i) == [rec_id |-> i, request_date |-> rows[i].request_date,
           delivered_date |-> rows[i].delivered_date]

\* fetchone() on an empty result.
NoRow == [rec_id |-> None, request_date |-> None, delivered_date |-> None]

\* Lowest element of a non-empty set of rec_ids.
MinId(S) == CHOOSE i \in S : \A j \in S : i <= j

\* SELECT * FROM record ORDER BY rec_id DESC LIMIT k: the k highest rec_ids.
TopIds(k) == {i \in live : Cardinality({j \in live : j > i}) < k}

\* SELECT * FROM (... LIMIT n+1) ORDER BY rec_id LIMIT 1: the lowest of the
\* n+1 highest rec_ids; no row only when the table is empty.
get_notification_data(k) ==
    IF TopIds(k + 1) = {} THEN NoRow ELSE Row(MinId(TopIds(k + 1)))

\* (sql_data[6] if sql_data[6] != None else sql_data[4])
EffectiveDate(d) ==
    IF d.delivered_date # None THEN d.delivered_date ELSE d.request_date

\* A variant of HasRow that takes an empty result for a row.
HasRowAlways(d) == TRUE

\* `if sql_data:` / `if last_data:` -- a row is a non-empty tuple, no row is
\* None.
HasRow(d) == d # NoRow

\* A variant of LoopTest that takes only a strictly later timestamp for new.
LoopTestStrict ==
    IF sql_data = NoRow THEN "error"
    ELSE IF last_id = Unset THEN "error"
    ELSE IF sql_data.rec_id = last_id THEN "false"
    ELSE IF last_date = None \/ last_date = Unset THEN "error"
    ELSE IF EffectiveDate(sql_data) > last_date THEN "true"
    ELSE "false"

\* The while condition of check (line 194), as Python evaluates it:
\* "error" when it raises, else "true" or "false".
LoopTest ==
    IF sql_data = NoRow THEN "error"                 \* None[0]: TypeError
    ELSE IF last_id = Unset THEN "error"             \* AttributeError
    ELSE IF sql_data.rec_id = last_id THEN "false"   \* and short-circuits
    ELSE IF last_date = None \/ last_date = Unset THEN "error"   \* x >= None
    ELSE IF EffectiveDate(sql_data) >= last_date THEN "true"
    ELSE "false"

\* The exception LoopTest = "error" stands for.
LoopError ==
    IF sql_data # NoRow /\ last_id = Unset THEN "AttributeError" ELSE "TypeError"

\* check has returned or was left by an exception: its locals are gone.
FrameGone ==
    /\ n' = 0
    /\ sql_data' = NoRow
    /\ newest_id' = None
    /\ newest_date' = None
    /\ status' = None

Running == pc \in {"idle", "polling", "loop", "commit_date", "rearm"}

\* The provider calls of the current (or, between polls, the last) poll.
PollSent == SubSeq(sent, pollFrom + 1, Len(sent))

\* ------------------------------------------------------------------- Init
Init ==
    /\ rows = <<>>
    /\ live = {}
    /\ pc = "start"
    /\ args \in Args
    /\ connection = "none"
    /\ queue = 0
    /\ last_id = Unset
    /\ last_date = Unset
    /\ n = 0
    /\ sql_data = NoRow
    /\ newest_id = None
    /\ newest_date = None
    /\ status = None
    /\ sent = <<>>
    /\ err = "none"
    /\ pollFrom = 0
    /\ baseline = {}
    /\ quiet = TRUE
    /\ calm = 0

\* ------------------------------------------------------------ environment
\* The notification subsystem inserts a record: the next rec_id, any dates.
Insert ==
    /\ pc \notin {"crashed", "exited", "config_error"}
    /\ Len(rows) < MaxRecords
    /\ \E d \in RecordDates :
          /\ rows' = Append(rows, d)
          /\ live' = live \cup {Len(rows) + 1}
    /\ quiet' = FALSE
    /\ calm' = 0
    /\ UNCHANGED <<pc, args, connection, queue, cursor, locals, sent, err, pollFrom,
                   baseline>>

\* The user dismisses a notification: its record is deleted.  (A record
\* deleted before the program starts is one the program never sees.)
Delete ==
    /\ Running
    /\ \E i \in live : live' = live \ {i}
    /\ quiet' = FALSE
    /\ UNCHANGED <<rows, pc, args, connection, queue, cursor, locals, sent, err, pollFrom,
                   baseline, calm>>

\* ---------------------------------------------------------------- program
\* setup, lines 78-80: validate_args raises; nothing was opened, nothing is
\* scheduled, the process ends.
ValidateFail ==
    /\ pc = "start"
    /\ validate_args(args) # "ok"
    /\ pc' = "config_error"
    /\ err' = validate_args(args)
    /\ UNCHANGED <<args, store, connection, queue, cursor, locals, sent, pollFrom,
                   baseline, quiet, calm>>

\* setup: the arguments are valid; connect, read the newest record, set the
\* cursor from it; setup returns (its args with it) and main enters the first
\* event into the scheduler.
Setup ==
    /\ pc = "start"
    /\ validate_args(args) = "ok"
    /\ connection' = "open"
    /\ LET last_data == get_notification_data(0) IN
          IF HasRow(last_data)
          THEN /\ last_id' = last_data.rec_id
               /\ last_date' = last_data.delivered_date
          ELSE UNCHANGED cursor
    /\ baseline' = live
    /\ queue' = 1
    /\ pc' = "idle"
    /\ args' = NoArgs
    /\ UNCHANGED <<store, locals, sent, err, pollFrom, quiet, calm>>

\* A variant of TimerFire that leaves the event in the scheduler's queue while
\* its action runs.
TimerFireKeep ==
    /\ pc = "idle"
    /\ queue = 1
    /\ pc' = "polling"
    /\ UNCHANGED <<args, store, connection, queue, cursor, locals, sent, err, pollFrom,
                   baseline, quiet, calm>>

\* s.run() takes the pending event and calls scheduled_update.
TimerFire ==
    /\ pc = "idle"
    /\ queue = 1
    /\ queue' = 0
    /\ pc' = "polling"
    /\ UNCHANGED <<args, store, connection, cursor, locals, sent, err, pollFrom, baseline,
                   quiet, calm>>

\* check, lines 187-192: n = 0, the first query; an empty store ends the poll.
CheckStart ==
    /\ pc = "polling"
    /\ pollFrom' = Len(sent)
    /\ quiet' = TRUE
    /\ calm' = IF calm < 2 THEN calm + 1 ELSE calm
    /\ LET d == get_notification_data(0) IN
          IF HasRow(d)
          THEN /\ n' = 0
               /\ sql_data' = d
               /\ newest_id' = d.rec_id
               /\ newest_date' = EffectiveDate(d)
               /\ status' = None
               /\ pc' = "loop"
          ELSE /\ FrameGone
               /\ pc' = "rearm"
    /\ UNCHANGED <<args, store, connection, queue, cursor, sent, err, baseline>>

\* A variant of LoopStep that moves the cursor as each record is sent.
LoopStepEager ==
    /\ pc = "loop"
    /\ LoopTest = "true"
    /\ Len(sent) < MaxSent
    /\ sent' = Append(sent, sql_data.rec_id)
    /\ n' = n + 1
    /\ sql_data' = get_notification_data(n + 1)
    /\ \E code \in StatusCodes : status' = code
    /\ last_id' = newest_id
    /\ last_date' = newest_date
    /\ UNCHANGED <<args, store, pc, connection, queue, newest_id, newest_date,
                   err, pollFrom, baseline, quiet, calm>>

\* check, lines 194-198: the condition holds; the record is parsed and sent
\* (send prints a warning when the status is not 200, nothing more), n += 1,
\* the next query.
LoopStep ==
    /\ pc = "loop"
    /\ LoopTest = "true"
    /\ Len(sent) < MaxSent
    /\ sent' = Append(sent, sql_data.rec_id)
    /\ n' = n + 1
    /\ sql_data' = get_notification_data(n + 1)
    /\ \E code \in StatusCodes : status' = code
    /\ UNCHANGED <<args, store, pc, connection, queue, cursor, newest_id, newest_date,
                   err, pollFrom, baseline, quiet, calm>>

\* A variant of ParseFail that skips the record and goes on with the scan.
ParseSkip ==
    /\ pc = "loop"
    /\ LoopTest = "true"
    /\ err' = "DecodeError"
    /\ n' = n + 1
    /\ sql_data' = get_notification_data(n + 1)
    /\ UNCHANGED <<args, store, pc, connection, queue, cursor, newest_id, newest_date,
                   status, sent, pollFrom, baseline, quiet, calm>>

\* check, line 196: plistlib.loads raises on the record's payload; nothing
\* catches it (main re-raises), the process ends.
ParseFail ==
    /\ pc = "loop"
    /\ LoopTest = "true"
    /\ pc' = "crashed"
    /\ err' = "DecodeError"
    /\ FrameGone
    /\ UNCHANGED <<args, store, connection, queue, cursor, sent, pollFrom,
                   baseline, quiet, calm>>

\* check, line 196: the provider's requests.post raises; the process ends.
SendFail ==
    /\ pc = "loop"
    /\ LoopTest = "true"
    /\ pc' = "crashed"
    /\ err' = "SendError"
    /\ FrameGone
    /\ UNCHANGED <<args, store, connection, queue, cursor, sent, pollFrom,
                   baseline, quiet, calm>>

\* check, line 194: evaluating the condition raises; the process ends.
LoopRaise ==
    /\ pc = "loop"
    /\ LoopTest = "error"
    /\ pc' = "crashed"
    /\ err' = LoopError
    /\ FrameGone
    /\ UNCHANGED <<args, store, connection, queue, cursor, sent, pollFrom,
                   baseline, quiet, calm>>

\* A variant of CommitId that commits the id the scan stopped at.
CommitIdLastScanned ==
    /\ pc = "loop"
    /\ LoopTest = "false"
    /\ last_id' = sql_data.rec_id
    /\ pc' = "commit_date"
    /\ UNCHANGED <<args, store, connection, queue, last_date, locals, sent, err, pollFrom,
                   baseline, quiet, calm>>

\* check, line 199: the loop is over, last_id = newest_id.
CommitId ==
    /\ pc = "loop"
    /\ LoopTest = "false"
    /\ last_id' = newest_id
    /\ pc' = "commit_date"
    /\ UNCHANGED <<args, store, connection, queue, last_date, locals, sent, err, pollFrom,
                   baseline, quiet, calm>>

\* check, line 200: last_date = newest_date; check returns.
CommitDate ==
    /\ pc = "commit_date"
    /\ last_date' = newest_date
    /\ pc' = "rearm"
    /\ FrameGone
    /\ UNCHANGED <<args, store, connection, queue, last_id, sent, err, pollFrom,
                   baseline, quiet, calm>>

\* scheduled_update, line 129: the next poll is entered into the scheduler.
Rearm ==
    /\ pc = "rearm"
    /\ queue' = queue + 1
    /\ pc' = "idle"
    /\ UNCHANGED <<args, store, connection, cursor, locals, sent, err, pollFrom, baseline,
                   quiet, calm>>

\* main, lines 136-139: KeyboardInterrupt anywhere under s.run().
Interrupt ==
    /\ Running
    /\ connection' = "closed"
    /\ pc' = "exited"
    /\ err' = "KeyboardInterrupt"
    /\ FrameGone
    /\ UNCHANGED <<args, store, queue, cursor, sent, pollFrom, baseline, quiet, calm>>

Next ==
    \/ Insert
    \/ Delete
    \/ ValidateFail
    \/ Setup
    \/ TimerFire
    \/ CheckStart
    \/ LoopStep
    \/ ParseFail
    \/ SendFail
    \/ LoopRaise
    \/ CommitId
    \/ CommitDate
    \/ Rearm
    \/ Interrupt

Spec == Init /\ [][Next]_vars

\* ------------------------------------------------------------ properties
\* The rec_ids in the provider log.
SentIds == {sent[k] : k \in 1..Len(sent)}

\* Effective timestamps are non-decreasing in rec_id.
Mono ==
    \A i, j \in 1..Len(rows) :
        i < j => EffectiveDate(rows[i]) <= EffectiveDate(rows[j])

\* C1: within one poll, of two records dispatched, the one with the lower
\* rec_id is dispatched first (oldest first).
C1_OldestFirst ==
    \A i, j \in 1..Len(PollSent) : PollSent[i] < PollSent[j] => i < j

\* C2: baseline suppression -- a record that was in the store when setup
\* captured the cursor is never dispatched.
C2_BaselineSuppressed ==
    \A k \in 1..Len(sent) : sent[k] \notin baseline

\* C3: no duplication across consecutive polls -- a poll that follows another
\* poll, with no record inserted since that poll began, dispatches nothing.
\* (A record inserted while the first poll was running is new to the second:
\* it counts as inserted between them.)
C3_SecondPollSendsNothing ==
    (pc = "loop" /\ calm = 2) => PollSent = <<>>

\* C4: deletion tolerance -- in a poll on a store in which the cursor's record
\* is gone and newer records are present (and which does not change during
\* the poll), only records inserted after the cursor are dispatched, each
\* once, the loop condition does not raise, and when the loop stops every
\* record inserted after the cursor has been dispatched.  Timestamps are
\* taken to be non-decreasing in rec_id, as a scan that stops at an older
\* timestamp presupposes, and the cursor's timestamp to be set.
C4_DeletionTolerance ==
    (/\ pc = "loop"
     /\ quiet
     /\ Mono
     /\ last_id # Unset
     /\ last_date # None
     /\ last_id \notin live
     /\ \E i \in live : i > last_id)
    => /\ \A k \in 1..Len(PollSent) : PollSent[k] > last_id
       /\ \A k, m \in 1..Len(PollSent) : k # m => PollSent[k] # PollSent[m]
       /\ LoopTest # "error"
       /\ LoopTest = "false" =>
             \A i \in live : i > last_id => \E k \in 1..Len(PollSent) : PollSent[k] = i

\* C5: every poll terminates -- on a store that does not change during the
\* poll, the scan makes at most (rows + 1) window queries, and when the
\* offset n reaches the number of rows the loop stops without error.
C5_ScanBounded ==
    (pc = "loop" /\ quiet)
    => /\ n <= Cardinality(live)
       /\ n = Cardinality(live) => LoopTest = "false"

\* C6: no record is dispatched more than once during a run.
C6_NoDuplicateDispatch ==
    \A k, m \in 1..Len(sent) : k # m => sent[k] # sent[m]

\* C7: no record is missed -- with effective timestamps non-decreasing in
\* rec_id, the cursor never names a record newer than a live record that was
\* inserted after the baseline and never dispatched.
C7_NoRecordMissed ==
    (Mono /\ last_id # Unset)
    => \A i \in live : (i \notin baseline /\ i <= last_id) => i \in SentIds

\* C8: cursor monotonicity -- last_id never decreases and last_date never
\* decreases.
C8_CursorMonotone ==
    [][/\ last_id # Unset => last_id' >= last_id
       /\ (last_date \notin {Unset, None} /\ last_date' # None)
             => last_date' >= last_date]_vars

\* C9: the cursor is committed only after the loop of check is over -- no
\* step taken while records are being decoded and dispatched changes
\* last_id or last_date, a step that aborts the process leaves both as they
\* were, and the only steps that change them are the two assignments after
\* the loop (and setup's baseline).
C9_CommitAfterLoop ==
    [][/\ (pc = "loop" /\ LoopTest # "false") => UNCHANGED cursor
       /\ pc' \in {"crashed", "exited"} => UNCHANGED cursor
       /\ cursor' # cursor =>
             \/ pc = "start"
             \/ pc = "loop" /\ LoopTest = "false" /\ pc' = "commit_date"
             \/ pc = "commit_date" /\ pc' = "rearm"]_vars

\* C9 witness: a send raised after an earlier record of the same poll was
\* dispatched and with a newer record still unsent; the cursor is still the
\* baseline's.
C9_Witness ==
    /\ pc = "crashed"
    /\ err = "SendError"
    /\ PollSent # <<>>
    /\ last_id \in baseline
    /\ \E i \in live : i > last_id /\ i \notin SentIds

\* C10: a poll that finds the store empty dispatches nothing, raises
\* nothing, leaves the cursor as it was, and returns to the scheduler, which
\* re-arms the next poll.
C10_EmptyStorePoll ==
    [][(pc = "polling" /\ live = {} /\ pc' \notin {"polling", "exited"})
          => /\ pc' = "rearm"
             /\ err' = "none"
             /\ connection' = "open"
             /\ UNCHANGED <<sent, cursor>>]_vars

\* C10 witness: a store that held records and was emptied has been polled.
C10_Witness ==
    /\ pc = "rearm"
    /\ quiet
    /\ live = {}
    /\ rows # <<>>
    /\ last_id # Unset
    /\ sent # <<>>

\* C11: a failed delivery does not block progress -- a send answered with a
\* status other than 200 raises nothing and the scan goes on to the next
\* offset; the record whose delivery failed is not handed to the provider
\* again; and when the loop is over after a failed delivery the cursor is
\* committed to the newest record of the poll.
C11_FailedDeliveryNoBlock ==
    [][/\ (Len(sent') > Len(sent) /\ status' # 200)
             => (pc' = "loop" /\ n' = n + 1 /\ err' = "none")
       /\ (status \notin {None, 200} /\ Len(sent') > Len(sent))
             => sent'[Len(sent')] # sent[Len(sent)]
       /\ (pc = "loop" /\ LoopTest = "false" /\ status \notin {None, 200}
              /\ pc' \notin {"loop", "exited"})
             => (pc' = "commit_date" /\ last_id' = newest_id)]_vars

\* C12 (as claimed): a malformed payload is recoverable -- a decode failure
\* never ends the process.
C12_MalformedSkipped ==
    err = "DecodeError" => pc # "crashed"

\* C12 (amended): a malformed payload is fatal -- the decode failure of a
\* record the scan takes for new ends the process at once: nothing more is
\* dispatched, the cursor is not committed, no poll is scheduled or run.
C12_DecodeErrorFatal ==
    [][/\ (err = "none" /\ err' = "DecodeError")
             => /\ pc = "loop" /\ LoopTest = "true"
                /\ pc' = "crashed"
                /\ UNCHANGED <<sent, cursor, queue>>
       /\ pc = "crashed" => (pc' = "crashed" /\ UNCHANGED <<sent, cursor, queue>>)]_vars

\* C12 witness: decoding failed after an earlier record of the poll was
\* dispatched, with a newer record still unsent.
C12_Witness ==
    /\ pc = "crashed"
    /\ err = "DecodeError"
    /\ PollSent # <<>>
    /\ \E i \in live : i > last_id /\ i \notin SentIds

\* C13: configuration gating -- with an invalid configuration setup ends in
\* validate_args: the store is not opened, the cursor not captured, nothing
\* scheduled, polled or dispatched, then or later; with provider prowl, an
\* API key, no user key and a positive frequency setup goes through.
C13_ConfigGating ==
    [][/\ (/\ pc = "start" /\ pc' # "start"
           /\ \/ args.frequency <= 0
              \/ args.api_key = "None"
              \/ args.provider \in {"pushover", "PushOver"} /\ args.user_key = "None")
             => /\ pc' = "config_error"
                /\ connection' = "none" /\ queue' = 0
                /\ UNCHANGED <<cursor, sent>>
       /\ pc = "config_error" => UNCHANGED <<pc, connection, queue, cursor, sent>>
       /\ (pc = "start" /\ pc' # "start" /\ args.provider = "prowl"
              /\ args.api_key # "None" /\ args.user_key = "None" /\ args.frequency > 0)
             => (pc' = "idle" /\ connection' = "open" /\ queue' = 1)]_vars

\* C13 witness: startup has failed for provider pushover with an API key, a
\* positive frequency and no user key, on a store that holds records.
C13_Witness ==
    /\ pc = "config_error"
    /\ Lower(args.provider) = "pushover"
    /\ args.api_key # "None"
    /\ args.user_key = "None"
    /\ args.frequency > 0
    /\ live # {}
    /\ connection = "none"

\* C14: orderly cancellation -- an interrupt while the scheduler runs closes
\* the connection and ends the process; afterwards nothing is queried, sent
\* or committed; and the cursor it leaves has last_id and last_date from one
\* and the same record.
C14_OrderlyCancellation ==
    [][/\ (Running /\ pc' = "exited")
             => /\ connection' = "closed"
                /\ sent' = sent
                /\ last_id' # Unset
                      => last_date' \in {rows[last_id'].delivered_date,
                                         EffectiveDate(rows[last_id'])}
       /\ pc = "exited" => UNCHANGED <<pc, connection, cursor, sent, locals>>]_vars

\* C15: polls never overlap -- the scheduler's queue never holds more than
\* one pending poll and holds none while a poll runs; a poll begins only from
\* the idle scheduler by taking the one pending event, and an event is
\* entered only by setup or when check has returned.
C15_PollsNeverOverlap ==
    [][/\ queue' \in {0, 1}
       /\ pc' \in {"polling", "loop", "commit_date", "rearm"} => queue' = 0
       /\ (pc' = "polling" /\ pc # "polling") => (pc = "idle" /\ queue = 1)
       /\ queue' > queue => (pc \in {"start", "rearm"} /\ queue = 0)]_vars

\* C15 witness: a later poll is in its loop, two records dispatched so far,
\* with polls before it having dispatched too.
C15_Witness ==
    /\ pc = "loop"
    /\ queue = 0
    /\ pollFrom > 0
    /\ Len(PollSent) >= 2

\* C16: window query semantics -- for every store content and every offset
\* k, get_notification_data(k) is the record with exactly k records of higher
\* rec_id when the store has at least k + 1 rows, and no row exactly when it
\* has fewer.
C16_WindowQuery ==
    \A k \in 0..MaxRecords :
        IF Cardinality(live) >= k + 1
        THEN /\ HasRow(get_notification_data(k))
             /\ Cardinality({j \in live : j > get_notification_data(k).rec_id}) = k
        ELSE get_notification_data(k) = NoRow

\* C17: quiescent-store correctness -- when the cursor is the id and
\* effective timestamp of a record still in the store, every record above it
\* has an effective timestamp not older than the cursor's, and the store has
\* not changed since the poll began, the poll dispatches the records above
\* the cursor newest first, each once, and its scan stops exactly when all of
\* them are sent, at the record whose id is last_id.
C17_QuiescentStore ==
    (/\ pc = "loop"
     /\ quiet
     /\ last_id \in live
     /\ last_date = EffectiveDate(rows[last_id])
     /\ \A i \in live : i > last_id => EffectiveDate(rows[i]) >= last_date)
    => LET New == {i \in live : i > last_id} IN
          /\ Len(PollSent) = n
          /\ n <= Cardinality(New)
          /\ \A j \in 1..n : /\ PollSent[j] \in New
                             /\ Cardinality({i \in New : i > PollSent[j]}) = j - 1
          /\ LoopTest # "error"
          /\ (LoopTest = "false") <=> (n = Cardinality(New))
          /\ (LoopTest = "false") => (sql_data.rec_id = last_id)

\* C17 witness: a later poll on an unchanged store has dispatched the one
\* record inserted since the poll before it and has stopped at the cursor's
\* record.
C17_Witness ==
    /\ pc = "loop"
    /\ quiet
    /\ last_id \in live
    /\ last_date = EffectiveDate(rows[last_id])
    /\ \A i \in live : i > last_id => EffectiveDate(rows[i]) >= last_date
    /\ pollFrom >= 1
    /\ Len(PollSent) >= 1
    /\ LoopTest = "false"

\* C18: cursor timestamps are effective timestamps -- whenever last_id is
\* set (the scheduler running, no commit half done), last_date is the effective timestamp of
\* the record last_id names, so it is never None and the comparison of line
\* 194 never raises on it.
C18_EffectiveTimestamps ==
    (last_id # Unset /\ pc \in {"idle", "polling", "loop", "rearm"})
    => /\ last_date = EffectiveDate(rows[last_id])
       /\ last_date # None
       /\ (pc = "loop" /\ sql_data # NoRow /\ sql_data.rec_id # last_id)
             => LoopTest # "error"

\* C19: empty store at startup -- when setup found no record the cursor is
\* unset, and a poll that then finds records evaluates its loop condition
\* without error (every record counts as new) and is not ended by the unset
\* cursor.
C19_EmptyStoreAtStartup ==
    (baseline = {} /\ pc \notin {"start", "config_error"})
    => /\ (sent = <<>> /\ pc \in {"idle", "polling"}) => last_id = Unset
       /\ (pc = "loop" /\ last_id = Unset) => LoopTest = "true"
       /\ err # "AttributeError"

\* C20: the cursor of a completed poll -- a poll on a non-empty store takes
\* newest_id and newest_date from the record its offset-0 query returns, the
\* id and the effective timestamp of that one record; neither changes while
\* the poll runs, whatever is inserted or deleted; and the poll ends by
\* committing exactly that pair.
C20_CursorOfCompletedPoll ==
    [][/\ (pc = "polling" /\ pc' = "loop")
             => /\ newest_id' = get_notification_data(0).rec_id
                /\ newest_date' = EffectiveDate(rows[newest_id'])
       /\ (pc \in {"loop", "commit_date"} /\ pc' \in {"loop", "commit_date"})
             => UNCHANGED <<newest_id, newest_date>>
       /\ (pc = "loop" /\ pc' = "commit_date") => last_id' = newest_id
       /\ (pc = "commit_date" /\ pc' = "rearm")
             => /\ last_id' = newest_id
                /\ last_date' = newest_date
                /\ last_date' = EffectiveDate(rows[last_id'])
       /\ (pc = "polling" /\ pc' = "rearm") => UNCHANGED cursor]_vars

\* C20 witness: a poll that dispatched has committed and returned, and while
\* it ran a newer record was inserted or the committed record was deleted.
C20_Witness ==
    /\ pc = "rearm"
    /\ PollSent # <<>>
    /\ ~quiet
    /\ last_id # Unset
    /\ \/ last_id \notin live
       \/ \E i \in live : i > last_id

====
